---- MODULE Spec2Model ----
(***************************************************************************)
(* Typing Speed Tester: the word source (words_random.py), the typing      *)
(* session and the Tk window that drives it (Typing_Speed_Tester/window.py)*)
(*                                                                         *)
(* A word is a sequence of one-character strings.  Five specifications     *)
(* share the state:                                                        *)
(*   Spec        the window: key, space, timer and button events           *)
(*   SpecWords   one WordsList(idiom).get_list() over every request outcome*)
(*   SpecSession the TypingSession object called method by method          *)
(*   SpecScore   save_score_to_csv and get_last_score over the score log   *)
(*   SpecLive    the window left to one session, its timer scheduled fairly*)
(***************************************************************************)
EXTENDS Integers, Sequences, FiniteSets, TLC

VARIABLES
    \* ---- Window (window.py:84-115)
    idiom,            \* self.idiom: None or a language code
    words_list,       \* self.words_list: the pool of the live session
    words_indexes,    \* self.words_indexes: (start, end) columns per word
    session,          \* self.session: the TypingSession fields
    timer_started,    \* self.timer_started
    after_id,         \* self.after_id: id of the last scheduled callback
    pending,          \* Tk's pending `after` callbacks (ids)
    entry_text,       \* content of typed_text_entry
    entry_state,      \* "normal" or "disabled"
    correct,          \* value returned by the last check_word call (FALSE
                      \* while the session has seen none)
    raised,           \* exception raised by the last handler, or "none"
    file,             \* score/score.csv
    last_score,       \* value of the last get_last_score() call
    \* ---- history of the live session
    ticks,            \* executions of update_timer
    submissions,      \* completed check_word + next_word submissions
    ends,             \* invocations of end_test
    \* ---- WordsList (words_random.py:12-20)
    response,         \* outcome of requests.get(url, timeout=5).json()
    wl_words_list,    \* WordsList.words_list
    requests,         \* number of requests.get calls
    sample_idx,       \* positions random.sample drew from filtered_words
    pc                \* position of the WordsList / TypingSession caller

vars == <<idiom, words_list, words_indexes, session, timer_started, after_id,
          pending, entry_text, entry_state, correct, raised, file,
          last_score, ticks, submissions, ends, response, wl_words_list, requests,
          sample_idx, pc>>

windowVars == <<idiom, words_list, words_indexes, timer_started, after_id,
                pending, entry_text, entry_state, file, last_score, ticks,
                ends>>

wordsVars == <<response, wl_words_list, requests, sample_idx>>

None == "None"

(***************************************************************************)
(* Program constants                                                       *)
(***************************************************************************)
TestSeconds == 60
MaxWordLength == 8
SampleSize == 200
CharsPerWord == 5

(***************************************************************************)
(* Bounds of the model                                                     *)
(***************************************************************************)
\* random.sample is enumerated exhaustively on lists of at most MaxPerm
\* entries; on longer lists only the rotations of the list are drawn
MaxPerm == 7
\* the longest response list holds SampleSize + BigExtra words of at most
\* MaxWordLength characters (and a longer word after every eighth of them)
BigExtra == 1
\* typed_text_entry holds at most MaxEntry characters
MaxEntry == 1
\* Restart and the flag buttons are pressed while the score log holds fewer
\* than MaxRows records
MaxRows == 2
\* SpecSession: longest typed string and longest word
MaxLen == 2
\* SpecScore: most correct characters of a saved session, and the largest
\* number a log field is read back as
MaxCredit == 2
\* most correct characters a session of any specification collects
MaxChars == 2 * MaxLen + MaxCredit
MaxScore == 200

Min(a, b) == IF a < b THEN a ELSE b

RECURSIVE SeqSum(_)
SeqSum(s) == IF s = <<>> THEN 0 ELSE Head(s) + SeqSum(Tail(s))

\* every sequence over S of length 0..n
SeqsUpTo(S, n) == UNION {[1..k -> S] : k \in 0..n}

(***************************************************************************)
(* words_random.py                                                         *)
(***************************************************************************)
FallbackList ==
    << <<"d","e","f","a","u","l","t">>, <<"w","o","r","d">>,
       <<"l","i","s","t">>, <<"i","n">>, <<"c","a","s","e">>,
       <<"o","f">>, <<"e","r","r","o","r">> >>

\* A JSON value as Python holds it after .json(): t is its type, v what
\* iterating it yields (the items of a list, the keys of an object)
JList(ws) == [t |-> "list", v |-> ws]
JObject(keys) == [t |-> "dict", v |-> keys]
JNull == [t |-> "NoneType", v |-> <<>>]
JNumber == [t |-> "int", v |-> <<>>]

\* The outcome of the request: a parsed body, or an exception
Ok(json) == [kind |-> "json", body |-> json]
Failed(why) == [kind |-> why, body |-> JNull]
Failures == {Failed("timeout"), Failed("unreachable"), Failed("not_json")}

\* get_words, lines 27-38: the body on success, the fallback on any exception
get_words(r) ==
    IF r.kind = "json" THEN r.body ELSE JList(FallbackList)

\* line 50: iterating words_list raises TypeError unless it is iterable
Iterable(wl) == wl.t \in {"list", "dict"}

\* line 50: [word for word in self.words_list if len(word) <= 8]
Filter(ws, maxlen) == SelectSeq(ws, LAMBDA word : Len(word) <= maxlen)

filtered_words(wl) == Filter(wl.v, MaxWordLength)

\* line 53: min(200, len(filtered_words))
sample_k_short(n) == Min(SampleSize - 1, n)
sample_k(n) == Min(SampleSize, n)

\* random.sample(population, k): k distinct positions of 1..n, in any order
RECURSIVE Injections(_, _)
Injections(S, k) ==
    IF k = 0 THEN {<<>>}
    ELSE UNION {{<<x>> \o p : p \in Injections(S \ {x}, k - 1)} : x \in S}

Rotations(n, k) == {[i \in 1..k |-> ((r + i - 1) % n) + 1] : r \in 0..(n - 1)}

sample(n, k) ==
    IF n <= MaxPerm THEN Injections(1..n, k) ELSE Rotations(n, k)

\* lines 50-55: the pool for the positions idx drawn by random.sample
get_list(wl, idx) == [i \in 1..Len(idx) |-> filtered_words(wl)[idx[i]]]

\* Response lists.  ShortWord(n) has n characters; BigList(n) holds n words
\* of at most MaxWordLength characters and a longer one after every eighth
ShortWord(n) == [j \in 1..n |-> IF j % 2 = 1 THEN "a" ELSE "b"]
BigList(n) ==
    [i \in 1..(n + ((n - 1) \div MaxWordLength)) |->
        ShortWord(IF i % (MaxWordLength + 1) = 0
                  THEN MaxWordLength + 1 ELSE i % (MaxWordLength + 1))]

WordsResponses ==
    Failures \cup
    { Ok(JList(<<>>)),
      Ok(JList(<<ShortWord(MaxWordLength + 1)>>)),
      Ok(JList(<<ShortWord(1), ShortWord(MaxWordLength + 1), ShortWord(MaxWordLength),
                 ShortWord(MaxWordLength + 2), ShortWord(2)>>)),
      Ok(JList(BigList(SampleSize - 1))),
      Ok(JList(BigList(SampleSize + BigExtra))),
      Ok(JObject(<<ShortWord(5), ShortWord(MaxWordLength + 1)>>)),
      Ok(JNull),
      Ok(JNumber) }

(***************************************************************************)
(* SpecWords: WordsList(idiom).get_list(), words_random.py:12-55           *)
(***************************************************************************)
\* WordsList.__init__ -> get_words: the one request
WordsList_init ==
    /\ pc = "new"
    /\ requests' = requests + 1
    /\ wl_words_list' = get_words(response)
    /\ pc' = "fetched"
    /\ UNCHANGED <<windowVars, session, correct, raised, submissions,
                   response, sample_idx>>

\* WordsList.get_list: filter, sample, return; TypeError when words_list
\* cannot be iterated
WordsList_get_list ==
    /\ pc = "fetched"
    /\ IF Iterable(wl_words_list)
       THEN LET n == Len(filtered_words(wl_words_list)) IN
            \E idx \in sample(n, sample_k(n)) :
               /\ sample_idx' = idx
               /\ words_list' = get_list(wl_words_list, idx)
               /\ raised' = "none"
               /\ pc' = "returned"
       ELSE /\ raised' = "TypeError"
            /\ pc' = "raised"
            /\ UNCHANGED <<sample_idx, words_list>>
    /\ UNCHANGED <<idiom, words_indexes, session, timer_started, after_id,
                   pending, entry_text, entry_state, correct, file,
                   last_score, ticks, submissions, ends, response,
                   wl_words_list, requests>>

(***************************************************************************)
(* Python floats: IEEE 754 binary64, every operation rounded to nearest,   *)
(* ties to even.  A 53-bit significand is held in three limbs of 20 bits,  *)
(* low limb first.                                                         *)
(***************************************************************************)
Limb == 2^20
\* the high limb of 2^52
Top == 2^12

BNZero == <<0, 0, 0>>
BNFromInt(n) == <<n % Limb, n \div Limb, 0>>
BNToInt(a) == a[1] + a[2] * Limb
BNOdd(a) == a[1] % 2 = 1
BNLess(a, b) ==
    \/ a[3] < b[3]
    \/ a[3] = b[3] /\ a[2] < b[2]
    \/ a[3] = b[3] /\ a[2] = b[2] /\ a[1] < b[1]
\* a * k + n for small k and n
BNMulAdd(a, k, n) ==
    LET c1 == a[1] * k + n
        c2 == a[2] * k + c1 \div Limb
    IN  <<c1 % Limb, c2 % Limb, a[3] * k + c2 \div Limb>>
\* a \div k for k a power of two below Limb
BNShift(a, k) ==
    <<a[1] \div k + (a[2] % k) * (Limb \div k),
      a[2] \div k + (a[3] % k) * (Limb \div k),
      a[3] \div k>>
\* a - b for a >= b
BNSub(a, b) ==
    LET b1 == IF a[1] < b[1] THEN 1 ELSE 0
        d1 == a[1] - b[1] + b1 * Limb
        b2 == IF a[2] - b1 < b[2] THEN 1 ELSE 0
        d2 == a[2] - b1 - b[2] + b2 * Limb
    IN  <<d1, d2, a[3] - b2 - b[3]>>

\* a float is neg, m, e: (-1)^neg * m * 2^e with 2^52 <= m < 2^53, or zero
FZero == [neg |-> FALSE, m |-> BNZero, e |-> 0]
IsZero(x) == x.m = BNZero

\* m * 2^e for 0 < m < 2^53, exactly, with the significand normalised
RECURSIVE Normal(_, _, _)
Normal(neg, m, e) ==
    IF m[3] >= Top THEN [neg |-> neg, m |-> m, e |-> e]
    ELSE IF m[3] = 0 /\ m[2] < Top THEN Normal(neg, <<0, m[1], m[2]>>, e - 20)
    ELSE IF m[3] < Top \div 32 THEN Normal(neg, BNMulAdd(m, 32, 0), e - 5)
    ELSE Normal(neg, BNMulAdd(m, 2, 0), e - 1)

\* float(n) for an int of fewer than 32 bits
float(n) ==
    IF n = 0 THEN FZero
    ELSE Normal(n < 0, BNFromInt(IF n < 0 THEN -n ELSE n), 0)

\* m * 2^e, m >= 2^52, rounded to 53 bits, to nearest and ties to even: guard
\* is the last bit dropped, sticky whether a bit dropped before it was 1
RECURSIVE Round(_, _, _, _, _)
Round(neg, m, e, guard, sticky) ==
    IF m[3] >= 2 * Top
    THEN Round(neg, BNShift(m, 2), e + 1, BNOdd(m), sticky \/ guard)
    ELSE IF guard /\ (sticky \/ BNOdd(m))
         THEN LET up == BNMulAdd(m, 1, 1)
              IN  IF up[3] >= 2 * Top
                  THEN [neg |-> neg, m |-> BNShift(up, 2), e |-> e + 1]
                  ELSE [neg |-> neg, m |-> up, e |-> e]
         ELSE [neg |-> neg, m |-> m, e |-> e]

\* long division of r * 64^k by d (r < d), six quotient bits at a time,
\* after the quotient digits q
RECURSIVE LongDivision(_, _, _, _)
LongDivision(r, d, q, k) ==
    IF k = 0 THEN [q |-> q, r |-> r]
    ELSE LET r64 == BNMulAdd(r, 64, 0)
             low == r64[3] \div (d[3] + 1)
             digit == CHOOSE g \in low..(low + 2) :
                        /\ ~BNLess(r64, BNMulAdd(d, g, 0))
                        /\ BNLess(r64, BNMulAdd(d, g + 1, 0))
         IN  LongDivision(BNSub(r64, BNMulAdd(d, digit, 0)), d,
                          BNMulAdd(q, 64, digit), k - 1)

\* x / y, y # 0: 54 or 55 quotient bits and the remainder, rounded
FDiv(x, y) ==
    IF IsZero(x) THEN FZero
    ELSE LET d == IF BNLess(x.m, y.m)
                  THEN LongDivision(x.m, y.m, BNZero, 9)
                  ELSE LongDivision(BNSub(x.m, y.m), y.m, BNFromInt(1), 9)
         IN  Round(x.neg # y.neg, d.q, x.e - y.e - 54, FALSE, d.r # BNZero)

\* k * x for a small positive int k
FMulInt(k, x) ==
    IF IsZero(x) THEN FZero
    ELSE Round(x.neg, BNMulAdd(x.m, k, 0), x.e, FALSE, FALSE)

\* x < y for floats of which at most one is negative
FLess(x, y) ==
    IF x.neg # y.neg THEN x.neg
    ELSE IF IsZero(y) THEN FALSE
    ELSE IF IsZero(x) THEN TRUE
    ELSE x.e < y.e \/ (x.e = y.e /\ BNLess(x.m, y.m))

\* max(x, y) of Python: y if y > x else x
FMax(x, y) == IF FLess(x, y) THEN y ELSE x

\* the significand m of m * 2^e shifted down to the integer part
RECURSIVE Shifted(_, _)
Shifted(m, e) ==
    IF e >= 0 \/ m = BNZero THEN m
    ELSE IF e <= -20 THEN Shifted(<<m[2], m[3], 0>>, e + 20)
    ELSE IF e <= -5 THEN Shifted(BNShift(m, 32), e + 5)
    ELSE Shifted(BNShift(m, 2), e + 1)
\* Python's int() of a float x, 0 <= x < 2^31: truncation
int(x) == BNToInt(Shifted(x.m, x.e))

(***************************************************************************)
(* TypingSession, window.py:11-76                                          *)
(***************************************************************************)
\* start, lines 31-41 (after __init__, lines 15-29)
start_before_first(words) ==
    [ words |-> words,
      time_left |-> TestSeconds,
      correct_words |-> 0,
      correct_chars |-> 0,
      current_word_index |-> -1,
      cpm_corrected |-> float(0),
      wpm |-> float(0) ]
start(words) ==
    [ words |-> words,
      time_left |-> TestSeconds,
      correct_words |-> 0,
      correct_chars |-> 0,
      current_word_index |-> 0,
      cpm_corrected |-> float(0),
      wpm |-> float(0) ]

\* Python indexes from 0: words[current_word_index]
CurrentWord(s) == s.words[s.current_word_index + 1]
InRange(s) == s.current_word_index < Len(s.words)

\* next_word, lines 43-51
next_word_stay(s) == s
next_word(s) == [s EXCEPT !.current_word_index = @ + 1]

\* check_word line 60: positions below the shorter length that agree
credit_anywhere(typed, actual) ==
    Cardinality({i \in 1..Len(typed) : \E j \in 1..Len(actual) : typed[i] = actual[j]})
credit(typed, actual) ==
    Cardinality({i \in 1..Min(Len(typed), Len(actual)) : typed[i] = actual[i]})

\* check_word line 62: typed == actual
equal_prefix(typed, actual) ==
    \A i \in 1..Min(Len(typed), Len(actual)) : typed[i] = actual[i]
equal(typed, actual) == typed = actual

\* check_word, lines 53-65 (called with the index in range): the session
\* after the call and the value returned
check_word_penalty(s, typed) ==
    LET actual == CurrentWord(s)
        s1 == [s EXCEPT !.correct_chars = @ + credit(typed, actual)]
    IN  IF equal(typed, actual)
        THEN [s |-> [s1 EXCEPT !.correct_words = @ + 1], ret |-> TRUE]
        ELSE [s |-> [s1 EXCEPT !.time_left = @ - 1], ret |-> FALSE]
check_word_assign(s, typed) ==
    LET actual == CurrentWord(s)
        s1 == [s EXCEPT !.correct_chars = credit(typed, actual)]
    IN  IF equal(typed, actual)
        THEN [s |-> [s1 EXCEPT !.correct_words = 1], ret |-> TRUE]
        ELSE [s |-> s1, ret |-> FALSE]
check_word(s, typed) ==
    LET actual == CurrentWord(s)
        s1 == [s EXCEPT !.correct_chars = @ + credit(typed, actual)]
    IN  IF equal(typed, actual)
        THEN [s |-> [s1 EXCEPT !.correct_words = @ + 1], ret |-> TRUE]
        ELSE [s |-> s1, ret |-> FALSE]

\* time.time() - self.start_time, in whole seconds: what the window's
\* sessions draw, and what SpecSession and SpecScore draw (a clock set back
\* gives a negative difference)
ElapsedWindow == {7}
ElapsedSecs == {-1, 0, 1, 7, 9, 60}

\* update_metrics lines 74-76 for correct_chars characters and
\* time.time() - start_time = elapsed
metrics_per_second(correct_chars, elapsed) ==
    LET elapsed_time == FMax(float(elapsed), FDiv(float(1), float(60)))
        cpm_corrected == FDiv(float(correct_chars), elapsed_time)
    IN  [cpm_corrected |-> cpm_corrected,
         wpm |-> FDiv(cpm_corrected, float(CharsPerWord))]
metrics(correct_chars, elapsed) ==
    LET elapsed_time == FMax(FDiv(float(elapsed), float(60)),
                             FDiv(float(1), float(60)))
        cpm_corrected == FDiv(float(correct_chars), elapsed_time)
    IN  [cpm_corrected |-> cpm_corrected,
         wpm |-> FDiv(cpm_corrected, float(CharsPerWord))]

\* metrics, evaluated once for the counts and times of the specifications
Metrics ==
    [correct_chars \in 0..MaxChars, elapsed \in ElapsedWindow \cup ElapsedSecs |->
        metrics(correct_chars, elapsed)]

\* update_metrics, lines 67-76; elapsed = time.time() - start_time, seconds
update_metrics(s, elapsed) ==
    LET m == Metrics[s.correct_chars, elapsed]
    IN  [s EXCEPT !.cpm_corrected = m.cpm_corrected, !.wpm = m.wpm]

(***************************************************************************)
(* Window, window.py:79-422.  Widgets that only render (labels, tags,      *)
(* read-only stat entries) are not part of the state; the message box of   *)
(* end_test is taken as dismissed at once.                                 *)
(***************************************************************************)
\* score/score.csv: absent, or its rows of four text fields
NoFile == [exists |-> FALSE, rows |-> <<>>]
Header == <<"Date", "Lang", "CPM", "WPM">>
\* datetime.now().strftime(...) at the time of the save
Now == "2026-01-01 12:00:00"

\* records in the log (the rows below the header)
DataRows(f) == IF f.exists THEN Len(f.rows) - 1 ELSE 0

\* save_score_to_csv lines 349-354: the data row
score_row(idi, s) ==
    << Now, IF idi # None THEN idi ELSE "en",
       ToString(int(s.cpm_corrected)), ToString(int(s.wpm)) >>

\* save_score_to_csv, lines 336-354: append mode, header when the file is new
save_always_header(f, idi, s) ==
    [exists |-> TRUE, rows |-> f.rows \o <<Header, score_row(idi, s)>>]
save_score_to_csv(f, idi, s) ==
    [exists |-> TRUE,
     rows |-> (IF f.exists THEN f.rows ELSE <<Header>>) \o <<score_row(idi, s)>>]

\* get_last_score line 361 / 366: the value returned for "no score"
NoScore == [found |-> FALSE, date |-> "", lang |-> "", cpm |-> 0, wpm |-> 0]

\* int(row[2]), lines 374-375: the number whose decimal text is t
int_of_str(t) == CHOOSE n \in 0..MaxScore : ToString(n) = t

\* get_last_score, lines 356-376
get_first_score(f) ==
    IF ~f.exists \/ Len(f.rows) <= 1 THEN NoScore
    ELSE LET last_row == f.rows[2]
         IN  [found |-> TRUE, date |-> last_row[1], lang |-> last_row[2],
              cpm |-> int_of_str(last_row[3]),
              wpm |-> int_of_str(last_row[4])]
get_last_score(f) ==
    IF ~f.exists \/ Len(f.rows) <= 1 THEN NoScore
    ELSE LET last_row == f.rows[Len(f.rows)]
         IN  [found |-> TRUE, date |-> last_row[1], lang |-> last_row[2],
              cpm |-> int_of_str(last_row[3]),
              wpm |-> int_of_str(last_row[4])]

\* reset_interface lines 402-408: "1.<start>" and "1.<end>" of every word
\* (each word is followed by one space)
reset_interface_indexes(words) ==
    [i \in 1..Len(words) |->
        LET start_index == SeqSum([j \in 1..(i - 1) |-> Len(words[j]) + 1])
        IN  <<start_index, start_index + Len(words[i])>>]

\* str.strip()
Whitespace == {" ", "\t", "\n"}
RECURSIVE lstrip(_)
lstrip(t) == IF t # <<>> /\ Head(t) \in Whitespace THEN lstrip(Tail(t)) ELSE t
RECURSIVE rstrip(_)
rstrip(t) ==
    IF t # <<>> /\ t[Len(t)] \in Whitespace
    THEN rstrip(SubSeq(t, 1, Len(t) - 1)) ELSE t
strip(t) == rstrip(lstrip(t))

\* Tk names every `after` callback anew; an id that is neither pending nor
\* held in after_id is free to stand for the next one
Ids == 1..3
NewId(p) == CHOOSE i \in Ids : i \notin p /\ i # after_id /\
                \A j \in Ids : (j \notin p /\ j # after_id) => i <= j

\* end_test, lines 321-334, for the session as it stands when it is called
end_test(s) ==
    /\ entry_state' = "disabled"
    /\ file' = save_score_to_csv(file, idiom, s)
    /\ ends' = ends + 1

\* update_timer lines 315-316
tick_keep(t) == t
tick(t) == t - 1
\* update_timer line 315: the countdown goes on while time is left
time_remains_after(t) == t > 1
time_remains(t) == t > 0

\* update_timer, lines 306-319; p: the callbacks pending when it runs
update_timer_once(p) ==
    /\ ticks' = ticks + 1
    /\ IF time_remains(session.time_left)
       THEN /\ session' = [session EXCEPT !.time_left = tick(@)]
            /\ pending' = p
            /\ UNCHANGED <<after_id, entry_state, file, ends>>
       ELSE /\ end_test(session)
            /\ pending' = p
            /\ UNCHANGED <<session, after_id>>
update_timer(p) ==
    /\ ticks' = ticks + 1
    /\ IF time_remains(session.time_left)
       THEN /\ session' = [session EXCEPT !.time_left = tick(@)]
            /\ after_id' = NewId(p)
            /\ pending' = p \cup {NewId(p)}
            /\ UNCHANGED <<entry_state, file, ends>>
       ELSE /\ end_test(session)
            /\ pending' = p
            /\ UNCHANGED <<session, after_id>>

\* What the keyboard puts into the entry in the window's sessions (the
\* space key never inserts: space_pressed returns "break"), and the
\* alphabet of SpecSession
Chars == {"a"}
SessionChars == {"a", "b"}

\* Entry's own <KeyPress> binding: a disabled entry ignores the insert
type_char(c) ==
    /\ pc = "window"
    /\ entry_state = "normal"
    /\ Len(entry_text) < MaxEntry
    /\ entry_text' = Append(entry_text, c)
    /\ UNCHANGED <<idiom, words_list, words_indexes, session, timer_started,
                   after_id, pending, entry_state, correct, raised, file,
                   last_score, ticks, submissions, ends, wordsVars, pc>>

\* check_typed_word, lines 211-240 (<KeyRelease>)
check_typed_word ==
    /\ pc = "window"
    /\ IF ~timer_started
       THEN /\ timer_started' = TRUE
            /\ update_timer(pending)
       ELSE UNCHANGED <<timer_started, session, after_id, pending,
                        entry_state, file, ends, ticks>>
    \* line 227: words_indexes[current_word_index]
    /\ raised' = IF session.current_word_index < Len(words_indexes)
                 THEN "none" ELSE "IndexError"
    /\ UNCHANGED <<idiom, words_list, words_indexes, entry_text, correct,
                   last_score, submissions, wordsVars, pc>>

\* space_pressed, lines 242-284 (<space>)
space_pressed ==
    /\ pc = "window"
    /\ IF ~InRange(session)
       THEN \* line 59: words[current_word_index] raises IndexError
            /\ raised' = "IndexError"
            /\ UNCHANGED <<session, correct, submissions, entry_text,
                           entry_state, file, ends>>
       ELSE \E elapsed \in ElapsedWindow :
            LET typed == strip(entry_text)
                checked == check_word(session, typed)
                moved == next_word(update_metrics(checked.s, elapsed))
            IN  /\ session' = moved
                /\ correct' = checked.ret
                /\ submissions' = submissions + 1
                /\ raised' = "none"
                /\ IF moved.current_word_index >= Len(words_list)
                   THEN /\ end_test(moved)
                        /\ UNCHANGED entry_text
                   ELSE /\ entry_text' = IF entry_state = "normal"
                                         THEN <<>> ELSE entry_text
                        /\ UNCHANGED <<entry_state, file, ends>>
    /\ UNCHANGED <<idiom, words_list, words_indexes, timer_started, after_id,
                   pending, last_score, ticks, wordsVars, pc>>

\* Tk runs a pending update_timer callback
timer_fires ==
    /\ pc = "window"
    /\ \E id \in pending : update_timer(pending \ {id})
    /\ raised' = "none"
    /\ UNCHANGED <<idiom, words_list, words_indexes, timer_started,
                   entry_text, correct, last_score, submissions, wordsVars,
                   pc>>

\* The responses the window's sessions are drawn from
WindowResponses ==
    { Ok(JList(<<>>)),
      Ok(JList(<< <<"a">>, ShortWord(MaxWordLength + 1), <<"b">> >>)),
      Ok(JNull) }

\* cancel_timer, lines 386-392: the callbacks left pending
cancel_nothing(p, id) == p
cancel_timer(p, id) == IF id # 0 THEN p \ {id} ELSE p

\* new_session, lines 167-175, with reset_interface, lines 394-422
new_session(r) ==
    LET wl == get_words(r) IN
    IF ~Iterable(wl)
    THEN \* line 172 raises: nothing below it runs
         /\ raised' = "TypeError"
         /\ UNCHANGED <<words_list, words_indexes, session, entry_text,
                        entry_state, correct, last_score, ticks, submissions,
                        ends>>
    ELSE LET n == Len(filtered_words(wl)) IN
         \E idx \in sample(n, sample_k(n)) :
            /\ words_list' = get_list(wl, idx)
            /\ session' = start(get_list(wl, idx))
            /\ words_indexes' = reset_interface_indexes(get_list(wl, idx))
            /\ entry_text' = <<>>
            /\ entry_state' = "normal"
            /\ correct' = FALSE
            /\ raised' = "none"
            /\ ticks' = 0
            /\ submissions' = 0
            /\ ends' = 0
            \* line 177
            /\ last_score' = get_last_score(file)

\* reset, lines 378-384 (the Restart button)
reset ==
    /\ pc = "window"
    /\ DataRows(file) < MaxRows
    /\ pending' = cancel_timer(pending, after_id)
    /\ after_id' = 0
    /\ timer_started' = FALSE
    /\ \E r \in WindowResponses : new_session(r)
    /\ UNCHANGED <<idiom, file, wordsVars, pc>>

\* change_language, lines 185-192 (the flag buttons)
change_language(i) ==
    /\ pc = "window"
    /\ DataRows(file) < MaxRows
    /\ idiom' = i
    /\ pending' = cancel_timer(pending, after_id)
    /\ after_id' = 0
    /\ timer_started' = FALSE
    /\ \E r \in WindowResponses : new_session(r)
    /\ UNCHANGED <<file, wordsVars, pc>>

\* Window.__init__, lines 84-115, when its new_session returns
Init ==
    /\ pc = "window"
    /\ idiom = None
    /\ after_id = 0
    /\ pending = {}
    /\ timer_started = FALSE
    /\ \E r \in WindowResponses :
         /\ Iterable(get_words(r))
         /\ LET wl == get_words(r)
                n == Len(filtered_words(wl))
            IN  \E idx \in sample(n, sample_k(n)) :
                  /\ words_list = get_list(wl, idx)
                  /\ session = start(get_list(wl, idx))
                  /\ words_indexes = reset_interface_indexes(get_list(wl, idx))
    /\ entry_text = <<>>
    /\ entry_state = "normal"
    /\ correct = FALSE
    /\ raised = "none"
    /\ file = NoFile
    /\ last_score = get_last_score(NoFile)
    /\ ticks = 0
    /\ submissions = 0
    /\ ends = 0
    /\ response = Ok(JNull)
    /\ wl_words_list = JNull
    /\ requests = 0
    /\ sample_idx = <<>>

Next ==
    \/ \E c \in Chars : type_char(c)
    \/ check_typed_word
    \/ space_pressed
    \/ timer_fires
    \/ reset
    \/ \E i \in {None, "pt-br"} : change_language(i)

Spec == Init /\ [][Next]_vars

(***************************************************************************)
(* SpecLive: the window left to one session (no Restart, no language       *)
(* change).  Tk's event loop runs a callback registered with after() once  *)
(* its delay has passed, whatever other events arrive: weak fairness of    *)
(* timer_fires.                                                            *)
(***************************************************************************)
NextLive ==
    \/ \E c \in Chars : type_char(c)
    \/ check_typed_word
    \/ space_pressed
    \/ timer_fires

SpecLive == Init /\ [][NextLive]_vars /\ WF_vars(timer_fires)

(***************************************************************************)
(* SpecWords                                                               *)
(***************************************************************************)
InitWords ==
    /\ pc = "new"
    /\ response \in WordsResponses
    /\ wl_words_list = JNull
    /\ requests = 0
    /\ sample_idx = <<>>
    /\ idiom \in {None, "pt-br"}
    /\ words_list = <<>>
    /\ words_indexes = <<>>
    /\ session = start(<<>>)
    /\ after_id = 0
    /\ pending = {}
    /\ timer_started = FALSE
    /\ entry_text = <<>>
    /\ entry_state = "normal"
    /\ correct = FALSE
    /\ raised = "none"
    /\ file = NoFile
    /\ last_score = get_last_score(NoFile)
    /\ ticks = 0
    /\ submissions = 0
    /\ ends = 0

NextWords == WordsList_init \/ WordsList_get_list

SpecWords == InitWords /\ [][NextWords]_vars

(***************************************************************************)
(* SpecSession: a TypingSession over a pool of one or two words, its       *)
(* methods called in the order space_pressed calls them (lines 255-272)    *)
(***************************************************************************)
SessionWords == SeqsUpTo(SessionChars, MaxLen) \ {<<>>}
SessionPools == {<<w>> : w \in SessionWords} \cup
                {<<w, <<"a", "b">> >> : w \in SessionWords}
TypedStrings == SeqsUpTo(SessionChars, MaxLen)

InitSession ==
    /\ pc = "idle"
    /\ \E ws \in SessionPools :
         /\ words_list = ws
         /\ session = start(ws)
         /\ words_indexes = reset_interface_indexes(ws)
    /\ idiom = None
    /\ after_id = 0
    /\ pending = {}
    /\ timer_started = FALSE
    /\ entry_text = <<>>
    /\ entry_state = "normal"
    /\ correct = FALSE
    /\ raised = "none"
    /\ file = NoFile
    /\ last_score = get_last_score(NoFile)
    /\ ticks = 0
    /\ submissions = 0
    /\ ends = 0
    /\ response = Ok(JNull)
    /\ wl_words_list = JNull
    /\ requests = 0
    /\ sample_idx = <<>>

\* session.check_word(typed)
call_check_word(typed) ==
    /\ pc = "idle"
    /\ IF InRange(session)
       THEN /\ session' = check_word(session, typed).s
            /\ correct' = check_word(session, typed).ret
            /\ raised' = "none"
            /\ pc' = "checked"
       ELSE /\ raised' = "IndexError"
            /\ UNCHANGED <<session, correct, pc>>
    /\ UNCHANGED <<windowVars, submissions, wordsVars>>

\* session.update_metrics()
call_update_metrics(elapsed) ==
    /\ pc = "checked"
    /\ session' = update_metrics(session, elapsed)
    /\ pc' = "measured"
    /\ UNCHANGED <<windowVars, correct, raised, submissions, wordsVars>>

\* session.next_word()
call_next_word ==
    /\ pc = "measured"
    /\ session' = next_word(session)
    /\ submissions' = submissions + 1
    /\ pc' = "idle"
    /\ UNCHANGED <<windowVars, correct, raised, wordsVars>>

NextSession ==
    \/ \E typed \in TypedStrings : call_check_word(typed)
    \/ \E elapsed \in ElapsedSecs : call_update_metrics(elapsed)
    \/ call_next_word

SpecSession == InitSession /\ [][NextSession]_vars

(***************************************************************************)
(* SpecScore: save_score_to_csv and get_last_score over a log that is      *)
(* absent, holds the header only, or holds one earlier record              *)
(***************************************************************************)
\* sessions as update_metrics leaves them
ScoredSessions ==
    { update_metrics([start(<<>>) EXCEPT !.correct_chars = cc], e) :
        cc \in 0..MaxCredit, e \in ElapsedSecs }

ScoreFiles ==
    { NoFile,
      [exists |-> TRUE, rows |-> <<Header>>],
      save_score_to_csv(NoFile, "pt-br", start(<<>>)) }

InitScore ==
    /\ pc = "score"
    /\ file \in ScoreFiles
    /\ idiom \in {None, "pt-br"}
    /\ session \in ScoredSessions
    /\ last_score = NoScore
    /\ words_list = <<>>
    /\ words_indexes = <<>>
    /\ after_id = 0
    /\ pending = {}
    /\ timer_started = FALSE
    /\ entry_text = <<>>
    /\ entry_state = "normal"
    /\ correct = FALSE
    /\ raised = "none"
    /\ ticks = 0
    /\ submissions = 0
    /\ ends = 0
    /\ response = Ok(JNull)
    /\ wl_words_list = JNull
    /\ requests = 0
    /\ sample_idx = <<>>

scoreFrame == <<words_list, words_indexes, timer_started, after_id, pending,
                entry_text, entry_state, correct, raised, ticks, submissions,
                ends, wordsVars>>

\* self.save_score_to_csv()
call_save_score_to_csv ==
    /\ pc = "score"
    /\ DataRows(file) < MaxRows
    /\ file' = save_score_to_csv(file, idiom, session)
    /\ pc' = "saved"
    /\ UNCHANGED <<idiom, session, last_score, scoreFrame>>

\* self.get_last_score(), right after a save or with the log as it was
call_get_last_score ==
    /\ pc \in {"score", "saved"}
    /\ last_score' = get_last_score(file)
    /\ pc' = IF pc = "saved" THEN "read saved" ELSE "read"
    /\ UNCHANGED <<idiom, session, file, scoreFrame>>

\* the next session ends with another language and other metrics
next_score(i, s) ==
    /\ pc \in {"read", "read saved"}
    /\ idiom' = i
    /\ session' = s
    /\ pc' = "score"
    /\ UNCHANGED <<file, last_score, scoreFrame>>

NextScore ==
    \/ call_save_score_to_csv
    \/ call_get_last_score
    \/ \E i \in {None, "pt-br"}, s \in ScoredSessions : next_score(i, s)

SpecScore == InitScore /\ [][NextScore]_vars

(***************************************************************************)
(* Properties                                                              *)
(***************************************************************************)
\* positions, counted pairwise from the front, at which t and w agree
RECURSIVE Agreeing(_, _)
Agreeing(t, w) ==
    IF t = <<>> \/ w = <<>> THEN 0
    ELSE (IF Head(t) = Head(w) THEN 1 ELSE 0) + Agreeing(Tail(t), Tail(w))

\* C1: one call check_word(t) on the current word w raises correct_chars by
\* exactly the number of positions below min(len(t), len(w)) at which t and
\* w hold the same character, which is never more than min(len(t), len(w)).
C1_CharacterCredit ==
    [][\A t \in TypedStrings :
         (InRange(session) /\ call_check_word(t)) =>
            LET w == CurrentWord(session)
                gain == session'.correct_chars - session.correct_chars
            IN  /\ gain = Agreeing(t, w)
                /\ gain <= Min(Len(t), Len(w))]_vars

\* a call gave credit for some but not all characters of a wrong word
C1_Witness ==
    /\ pc = "checked"
    /\ correct = FALSE
    /\ session.correct_chars = 1
    /\ Len(CurrentWord(session)) = 2

\* C2: check_word(t) returns True and raises correct_words by one exactly
\* when t is the current word (same length, same characters); otherwise it
\* returns False and leaves correct_words alone.
C2_ExactMatch ==
    [][\A t \in TypedStrings :
         (InRange(session) /\ call_check_word(t)) =>
            LET w == CurrentWord(session)
                same == Len(t) = Len(w) /\ \A i \in 1..Len(w) : t[i] = w[i]
            IN  /\ correct' = same
                /\ session'.correct_words =
                     session.correct_words + (IF same THEN 1 ELSE 0)]_vars

\* a word typed exactly after a word that was not
C2_Witness ==
    /\ pc = "checked"
    /\ correct = TRUE
    /\ session.current_word_index = 1
    /\ session.correct_words = 1

\* C3: the index counts the submissions of the session; a space press on
\* an Active session (end_test not run, a word left) advances the index by
\* one whatever was typed; end_test runs in the press that makes the
\* len(words)-th submission, leaving the index at len(words), and no press
\* before that one ends the test.
C3_SubmissionsAdvance ==
    /\ [](session.current_word_index = submissions)
    /\ []((submissions >= 1 /\ submissions = Len(session.words))
            => (session.current_word_index = Len(session.words) /\ ends >= 1))
    /\ [][(ends = 0 /\ InRange(session) /\ space_pressed) =>
            /\ session'.current_word_index = session.current_word_index + 1
            /\ submissions' = submissions + 1
            /\ (ends' = 1) = (submissions' = Len(session.words))]_vars
    /\ [][(space_pressed /\ ends' > ends) => (submissions' = Len(session.words))]_vars

\* both words submitted, one of them wrong: the session ended on the second
C3_Witness ==
    /\ Len(session.words) = 2
    /\ submissions = 2
    /\ session.current_word_index = 2
    /\ session.correct_words = 1
    /\ ends = 1
    /\ ticks = 0

\* C4 as stated: after end_test has run, the session's fields stay as they
\* are under every later event, until a new session replaces it.
C4_FrozenAfterEnd ==
    [][(ends > 0 /\ ends' > 0) => (session' = session)]_vars

\* C5 as stated: time_left = 0 is reached by the 60th execution of
\* update_timer, the session is Ended in that same execution, and there is
\* no 61st.
C5_EndsOnSixtiethTick ==
    /\ ticks <= TestSeconds
    /\ (timer_started /\ session.time_left = 0) => ends > 0

\* C5 as amended: the first 60 executions of update_timer bring time_left
\* from 60 to 0, each scheduling the next; end_test is called by the
\* execution after that (the 61st), which finds time_left = 0, leaves it
\* there and schedules nothing.
C5_EndsOnTickAfterZero ==
    /\ [](session.time_left = TestSeconds - Min(ticks, TestSeconds))
    /\ [][(ticks' = ticks + 1) =>
            IF session.time_left > 0
            THEN /\ session'.time_left = session.time_left - 1
                 /\ ends' = ends
                 /\ pending' # {}
            ELSE /\ ticks' > TestSeconds
                 /\ session'.time_left = 0
                 /\ ends' = ends + 1
                 /\ pending' = {}]_vars

\* the countdown has run out: 61 executions, ended, nothing pending
C5_Witness ==
    /\ ticks = TestSeconds + 1
    /\ session.time_left = 0
    /\ ends = 1
    /\ pending = {}
    /\ submissions = 0

\* C6: time_left stays within 0..60; an execution of update_timer lowers it
\* by one when it is positive and leaves it at 0 otherwise; nothing else
\* changes it within a session.
C6_TimeLeft ==
    /\ [](session.time_left \in 0..TestSeconds)
    /\ [][IF ticks' = ticks + 1
          THEN session'.time_left =
                 (IF session.time_left > 0 THEN session.time_left - 1 ELSE 0)
          ELSE (ticks' = ticks) => (session'.time_left = session.time_left)]_vars

\* half of the countdown is gone and a word has been submitted meanwhile
C6_Witness ==
    /\ session.time_left = 30
    /\ submissions = 1
    /\ ends = 0

\* C7 as stated: no handler reaches check_word or an index beyond the pool,
\* so no IndexError is raised.
C7_NoIndexError == raised # "IndexError"

\* the response was no list of words
FailureOutcome == response.kind # "json" \/ response.body.t # "list"

\* C8 as stated: whatever the request's outcome, get_list returns a pool
\* without raising after exactly one request, and on a failure outcome the
\* pool is made of fallback words.
C8_NeverRaises ==
    (pc \in {"returned", "raised"}) =>
        /\ raised = "none"
        /\ requests = 1
        /\ FailureOutcome =>
             \A i \in 1..Len(words_list) :
                \E j \in 1..Len(FallbackList) : words_list[i] = FallbackList[j]

\* the source positions of the entries of at most MaxWordLength characters,
\* in source order
ShortPositions(src) ==
    SelectSeq([i \in 1..Len(src) |-> i], LAMBDA i : Len(src[i]) <= MaxWordLength)

\* C9: the pool get_list returns holds min(200, number of source entries of
\* length <= 8) words, each of length <= 8, taken from pairwise different
\* source positions; it is empty when the source has no such entry.
C9_PoolSize ==
    (pc = "returned") =>
        LET src == wl_words_list.v
            short == ShortPositions(src)
            at == [i \in 1..Len(sample_idx) |-> short[sample_idx[i]]]
        IN  /\ Len(words_list) = Min(SampleSize, Len(short))
            /\ \A i \in 1..Len(words_list) : Len(words_list[i]) <= MaxWordLength
            /\ Len(sample_idx) = Len(words_list)
            /\ \A i \in 1..Len(sample_idx) : sample_idx[i] \in 1..Len(short)
            /\ \A i \in 1..Len(words_list) : words_list[i] = src[at[i]]
            /\ Cardinality({at[i] : i \in 1..Len(words_list)}) = Len(words_list)
            /\ (Len(short) = 0) => (words_list = <<>>)

\* more than 200 short entries in the source, 200 of them in the pool
C9_Witness ==
    /\ pc = "returned"
    /\ Len(ShortPositions(wl_words_list.v)) > SampleSize
    /\ Len(wl_words_list.v) > Len(ShortPositions(wl_words_list.v))
    /\ Len(words_list) = SampleSize

\* C11: get_last_score returns nothing when the log file does not exist or
\* holds only its header row; read right after a save it returns the
\* language, cpm and wpm of the record that save wrote: the language is the
\* idiom ("en" when the idiom is None), cpm and wpm are the session's
\* metrics truncated to integers.
C11_LastScore ==
    /\ (pc \in {"read", "read saved"} /\ (~file.exists \/ Len(file.rows) = 1))
         => last_score = NoScore
    /\ pc = "read saved" =>
         /\ last_score.found
         /\ last_score.lang = (IF idiom = None THEN "en" ELSE idiom)
         /\ last_score.cpm = int(session.cpm_corrected)
         /\ last_score.wpm = int(session.wpm)

\* a second record, in English and with a non-zero score, was read back
C11_Witness ==
    /\ pc = "read saved"
    /\ Len(file.rows) = 3
    /\ last_score.lang = "en"
    /\ last_score.cpm > last_score.wpm
    /\ last_score.wpm > 0

\* C10: the log, once it exists, is the header row followed by data rows
\* only; every save appends one row (after the header when the file is
\* new) and leaves the rows already there in place; nothing else writes.
C10_AppendOnlyLog ==
    /\ [](file.exists =>
            /\ Len(file.rows) >= 2
            /\ file.rows[1] = Header
            /\ \A i \in 2..Len(file.rows) : file.rows[i] # Header)
    /\ [][IF ends' = ends + 1
          THEN /\ file'.exists
               /\ Len(file'.rows) = Len(file.rows) + (IF file.exists THEN 1 ELSE 2)
               /\ \A i \in 1..Len(file.rows) : file'.rows[i] = file.rows[i]
               /\ file'.rows[Len(file'.rows)] =
                    << Now, IF idiom = None THEN "en" ELSE idiom,
                       ToString(int(session'.cpm_corrected)),
                       ToString(int(session'.wpm)) >>
          ELSE file' = file]_vars

\* three saves, the last one unlike the first
C10_Witness ==
    /\ file.exists
    /\ Len(file.rows) = 4
    /\ file.rows[2] # file.rows[4]

\* C12: a session is constructed with correct_words = correct_chars = 0, and
\* as long as it is the live session no step (key release, word submission,
\* timer tick, end_test, a Restart that fails) lowers either counter; the
\* counters go down only when a newly constructed session, with both at 0,
\* takes its place.
C12_CountersNeverDecrease ==
    /\ session.correct_words = 0 /\ session.correct_chars = 0
    /\ [][\/ /\ session'.correct_words >= session.correct_words
             /\ session'.correct_chars >= session.correct_chars
          \/ /\ session' = start(words_list')
             /\ session'.correct_words = 0 /\ session'.correct_chars = 0
             /\ submissions' = 0 /\ ticks' = 0 /\ ends' = 0]_vars

\* both counters rose, and the session went on through ticks to its end
C12_Witness ==
    /\ session.correct_words = 1
    /\ session.correct_chars = 1
    /\ session.current_word_index = 2
    /\ ticks > 1
    /\ ends > 0

\* C13: in every reachable state of the window the live session has
\* 0 <= current_word_index <= len(words).
C13_IndexInRange ==
    /\ 0 <= session.current_word_index
    /\ session.current_word_index <= Len(session.words)

\* a space press after the last word of a pool of two was refused
C13_Witness ==
    /\ session.current_word_index = Len(session.words)
    /\ Len(session.words) = 2
    /\ raised = "IndexError"

\* C15: for each session end_test runs at most once, so that the session
\* appends at most one record to the log.
C15_EndsOnce == ends <= 1

\* C16: at most one update_timer callback is pending at any time, and it is
\* the one the live session scheduled last (after_id) after its countdown
\* was started; a session whose countdown has not been started, as every
\* session is right after Restart or a language change, has no callback
\* pending, so that no callback of a discarded session is left to fire.
C16_OneLiveTimer ==
    /\ Cardinality(pending) <= 1
    /\ pending # {} => (timer_started /\ pending = {after_id})

\* Restart cancelled the callback of a running countdown
C16_Witness ==
    /\ raised = "TypeError"
    /\ session.time_left \in 1..(TestSeconds - 1)
    /\ ends = 0
    /\ ~timer_started
    /\ pending = {}

\* C17: from any reachable state Restart (reset) and change_language leave a
\* fresh session (time_left = 60, correct_words = correct_chars =
\* current_word_index = 0, cpm_corrected = wpm = 0) with no timer callback
\* pending and timer_started False, and time_left stays 60 as long as the
\* countdown has not been started by a key release.
C17_FreshAfterRestart ==
    /\ [][(reset \/ \E i \in {None, "pt-br"} : change_language(i)) =>
            /\ session'.time_left = TestSeconds
            /\ session'.correct_words = 0
            /\ session'.correct_chars = 0
            /\ session'.current_word_index = 0
            /\ session'.cpm_corrected = float(0)
            /\ session'.wpm = float(0)
            /\ pending' = {}
            /\ ~timer_started']_vars
    /\ [](~timer_started => session.time_left = TestSeconds)

\* C18: a run of update_timer, from the timer or from the first key release,
\* leaves correct_chars, correct_words, current_word_index, cpm_corrected
\* and wpm as they were, and a word submission (space_pressed) leaves
\* time_left as it was.
C18_Frames ==
    [][/\ (timer_fires \/ check_typed_word) =>
            /\ session'.correct_chars = session.correct_chars
            /\ session'.correct_words = session.correct_words
            /\ session'.current_word_index = session.current_word_index
            /\ session'.cpm_corrected = session.cpm_corrected
            /\ session'.wpm = session.wpm
       /\ space_pressed => session'.time_left = session.time_left]_vars

\* a running session after the submission of a right word, with a non-zero
\* score, and after ticks
C18_Witness ==
    /\ ends = 0
    /\ session.current_word_index = 1
    /\ session.correct_chars = 1
    /\ session.wpm # float(0)
    /\ session.time_left \in 1..(TestSeconds - 2)
    /\ ticks > 1

\* C19: once the first key release has started the countdown of a session,
\* and with no Restart or language change, end_test is eventually invoked,
\* whatever is typed or submitted meanwhile.
C19_EventuallyEnded == timer_started ~> (ends > 0)

\* the countdown ran out on a session in which nothing was submitted
C19_Witness ==
    /\ timer_started
    /\ ends = 1
    /\ session.time_left = 0
    /\ submissions = 0
    /\ Len(session.words) = 2

\* floats that are equal or next to each other
Adjacent(x, y) ==
    \/ x = y
    \/ x.neg = y.neg /\ x.e = y.e /\ BNMulAdd(x.m, 1, 1) = y.m
    \/ x.neg = y.neg /\ x.e + 1 = y.e /\ y.m = <<0, 0, Top>>
         /\ BNMulAdd(x.m, 1, 1) = <<0, 0, 2 * Top>>

\* elapsedMinutes: the time since the start in minutes, at least 1/60
elapsedMinutes(elapsed) ==
    FMax(FDiv(float(elapsed), float(60)), FDiv(float(1), float(60)))

\* C14 as stated: from construction on and after every update_metrics call,
\* cpm_corrected == 5 * wpm.
C14_FiveTimesWpm == session.cpm_corrected = FMulInt(CharsPerWord, session.wpm)

\* C14 amended: from construction on and after every update_metrics call,
\* wpm == cpm_corrected / 5 as floats, so that 5 * wpm is cpm_corrected or
\* one of the two floats next to it; update_metrics leaves cpm_corrected ==
\* correct_chars / elapsedMinutes.
C14_MetricsConsistent ==
    /\ [](/\ session.wpm = FDiv(session.cpm_corrected, float(CharsPerWord))
          /\ LET w5 == FMulInt(CharsPerWord, session.wpm)
             IN  Adjacent(w5, session.cpm_corrected)
                   \/ Adjacent(session.cpm_corrected, w5))
    /\ [][\A elapsed \in ElapsedSecs :
            call_update_metrics(elapsed) =>
               session'.cpm_corrected =
                  FDiv(float(session.correct_chars), elapsedMinutes(elapsed))]_vars

\* metrics of one correct character for which 5 * wpm is not cpm_corrected
C14_Witness ==
    /\ pc = "measured"
    /\ session.correct_chars = 1
    /\ session.cpm_corrected # FMulInt(CharsPerWord, session.wpm)

====
